---- MODULE Spec2Model ----
(***************************************************************************)
(* Model of WindowsFilesystemFunctions (Veyon, Windows platform plugin):   *)
(* fileOwnerGroup, setFileOwnerGroup and setFileOwnerGroupPermissions,     *)
(* together with the parts of the Windows security subsystem they call     *)
(* (account lookup, named security info, token privilege, ACL building).   *)
(*                                                                         *)
(* A DWORD access mask is modelled as the set of its set bit positions     *)
(* (GENERIC_READ = 0x80000000 is {31}); "|=" is then set union.  This      *)
(* keeps the full 32 bit width.  QFile::Permissions values are small and   *)
(* stay integers, tested with a bitwise AND as the code does.              *)
(***************************************************************************)
EXTENDS Integers, Sequences, FiniteSets, TLC

(* ------------------------------ bounds --------------------------------- *)

\* number of threads of the process that may call into the class
NumThreads == 2

Threads == 1..NumThreads

\* the thread used when calls are serialised (spec section 5)
MainThread == {1}

(* ------------------------- platform constants -------------------------- *)

ERROR_SUCCESS == 0
ERROR_FILE_NOT_FOUND == 2
ERROR_ACCESS_DENIED == 5
ERROR_INVALID_OWNER == 1307
ERROR_INVALID_ACL == 1336

\* BOOL results of the Win32 calls
WIN_TRUE == 1
WIN_FALSE == 0

SECURITY_MAX_SID_SIZE == 68
MAX_PATH == 260
NUM_ACES == 2

\* QFile::Permission flags tested by setFileOwnerGroupPermissions
ReadGroup == 64
WriteGroup == 32
ExeGroup == 16

\* generic access rights, as sets of bit positions of the DWORD
GENERIC_READ == {31}
GENERIC_WRITE == {30}
GENERIC_EXECUTE == {29}
GENERIC_ALL == {28}

\* bitwise AND of two naturals (the "&" of the permission tests)
RECURSIVE BitAnd(_, _)
BitAnd(a, b) ==
    IF a = 0 \/ b = 0 THEN 0
    ELSE (a % 2) * (b % 2) + 2 * BitAnd(a \div 2, b \div 2)

(* ---------------------- the security subsystem ------------------------- *)

\* the accounts the local system knows; aliases are the spellings that
\* LookupAccountName accepts for the account (it matches case-insensitively)
Accounts ==
    { [name |-> "Alice", domain |-> "HOST", sid |-> "S-1-5-21-1001", sidLen |-> 28,
       aliases |-> {"Alice", "alice"}],
      [name |-> "Bob", domain |-> "HOST", sid |-> "S-1-5-21-1002", sidLen |-> 28,
       aliases |-> {"Bob"}],
      [name |-> "Administrators", domain |-> "BUILTIN", sid |-> "S-1-5-32-544", sidLen |-> 16,
       aliases |-> {"Administrators"}] }

Sids == { a.sid : a \in Accounts }

NullSid == "nullptr"

\* the SID AllocateAndInitializeSid builds from SECURITY_NT_AUTHORITY,
\* SECURITY_BUILTIN_DOMAIN_RID (32) and DOMAIN_ALIAS_RID_ADMINS (544)
AdministratorsSid == "S-1-5-32-544"

\* paths handed to the class; only the first names an existing file
ExistingPaths == { "C:/data/report.xlsx" }
FilePaths == ExistingPaths \cup { "C:/missing.txt" }

\* group names handed to setFileOwnerGroup
GroupNames == { "Alice", "alice", "Bob", "Administrators", "NoSuchUser" }

\* QFile::Permissions handed to setFileOwnerGroupPermissions: every combination
\* of the three group flags, alone or with ReadOwner (0x4000) and ReadOther (0x4)
PermissionValues ==
    { r + w + x + o : r \in {0, ReadGroup}, w \in {0, WriteGroup},
                      x \in {0, ExeGroup}, o \in {0, 16384 + 4} }

\* inputs of the calls that run concurrently
ConcPaths == ExistingPaths
ConcNames == { "Bob", "NoSuchUser" }

\* LookupAccountName( nullptr, name, sid, &cbSid, domain, &cchDomain, &use ):
\* TRUE and the SID when the name is known and both buffers are large enough
LookupAccountName(accountName, cbSid, cchDomain) ==
    LET found == { a \in Accounts : accountName \in a.aliases /\ a.sidLen <= cbSid
                                     /\ Len(a.domain) < cchDomain }
    IN  IF found = {} THEN [ret |-> WIN_FALSE, sid |-> NullSid]
        ELSE [ret |-> WIN_TRUE, sid |-> (CHOOSE a \in found : TRUE).sid]

\* LookupAccountSid( nullptr, sid, name, &cchName, domain, &cchDomain, &use ):
\* TRUE and the name buffer filled when the SID is known and both buffers are
\* large enough; otherwise FALSE and the name buffer is left untouched
LookupAccountSid(sid, cchName, cchDomain) ==
    LET found == { a \in Accounts : a.sid = sid /\ Len(a.name) < cchName
                                     /\ Len(a.domain) < cchDomain }
    IN  IF found = {} THEN [ret |-> WIN_FALSE, filled |-> FALSE, name |-> ""]
        ELSE [ret |-> WIN_TRUE, filled |-> TRUE, name |-> (CHOOSE a \in found : TRUE).name]

\* what a read of the never-written stack array "name" can yield
StackContents == { a.name : a \in Accounts } \cup { "", "<garbage>" }

\* results GetNamedSecurityInfo( path, SE_FILE_OBJECT, OWNER_SECURITY_INFORMATION, .. ) can give
GetNamedSecurityInfoResults(path) ==
    IF path \in ExistingPaths THEN { ERROR_SUCCESS, ERROR_ACCESS_DENIED }
    ELSE { ERROR_FILE_NOT_FOUND }

\* results SetNamedSecurityInfo( path, .., OWNER_SECURITY_INFORMATION, sid, .. ) can give,
\* depending on whether SeTakeOwnershipPrivilege is enabled in the process token
SetOwnerResults(path, privEnabled) ==
    IF path \notin ExistingPaths THEN { ERROR_FILE_NOT_FOUND }
    ELSE IF privEnabled THEN { ERROR_SUCCESS, ERROR_INVALID_OWNER }
    ELSE { ERROR_SUCCESS, ERROR_ACCESS_DENIED }

\* results SetNamedSecurityInfo( path, .., DACL_SECURITY_INFORMATION, .., acl, .. ) can give
SetDaclResults(path) ==
    IF path \notin ExistingPaths THEN { ERROR_FILE_NOT_FOUND }
    ELSE { ERROR_SUCCESS, ERROR_ACCESS_DENIED, ERROR_INVALID_ACL }

\* an access control entry of a DACL
Ace(sid, mask) == [type |-> "ACCESS_ALLOWED", sid |-> sid, mask |-> mask]

\* the DACLs the file may carry before the class touches it
InitialDacls ==
    { << >>,
      << Ace("S-1-5-21-1002", GENERIC_READ \cup GENERIC_WRITE), Ace("S-1-5-32-544", GENERIC_ALL),
         Ace("S-1-1-0", GENERIC_READ) >> }

(* ------------------------ ACL construction ----------------------------- *)

\* variant: read access is granted even when no group flag is present
GroupAccessPermissions_ImplicitRead(perm) ==
    GENERIC_READ
    \cup (IF BitAnd(perm, WriteGroup) # 0 THEN GENERIC_WRITE ELSE {})
    \cup (IF BitAnd(perm, ExeGroup) # 0 THEN GENERIC_EXECUTE ELSE {})

\* ea[0].grfAccessPermissions: zero, then one generic right per group flag present
GroupAccessPermissions(perm) ==
    (IF BitAnd(perm, ReadGroup) # 0 THEN GENERIC_READ ELSE {})
    \cup (IF BitAnd(perm, WriteGroup) # 0 THEN GENERIC_WRITE ELSE {})
    \cup (IF BitAnd(perm, ExeGroup) # 0 THEN GENERIC_EXECUTE ELSE {})

\* one EXPLICIT_ACCESS as both entries are filled in
ExplicitAccess(mask, sid) ==
    [grfAccessPermissions |-> mask, grfAccessMode |-> "SET_ACCESS",
     grfInheritance |-> "NO_INHERITANCE", TrusteeForm |-> "TRUSTEE_IS_SID",
     TrusteeType |-> "TRUSTEE_IS_GROUP", ptstrName |-> sid]

\* the array ea[NUM_ACES]: ea[0] for the file's owner, ea[1] full control for Administrators
BuildExplicitAccess(perm, ownerSid, adminSid) ==
    << ExplicitAccess(GroupAccessPermissions(perm), ownerSid),
       ExplicitAccess(GENERIC_ALL, adminSid) >>

\* SetEntriesInAcl( count, entries, oldAcl, &acl ): the first count entries as
\* allowed ACEs in the order given, followed by the ACEs of oldAcl whose trustee
\* no SET_ACCESS entry names (SET_ACCESS discards what the old ACL held for it)
SetEntriesInAcl(count, entries, oldAcl) ==
    LET named == { entries[i].ptstrName : i \in 1..count }
    IN  [i \in 1..count |-> Ace(entries[i].ptstrName, entries[i].grfAccessPermissions)]
        \o SelectSeq(oldAcl, LAMBDA ace : ace.sid \notin named)

\* variant: the file's current DACL is handed over, so the entries are merged into it
OldAclArgument_Merge(currentDacl) == currentDacl

\* the old ACL handed to SetEntriesInAcl: nullptr, an empty list
OldAclArgument(currentDacl) == << >>

\* WindowsCoreFunctions::enablePrivilege( SE_TAKE_OWNERSHIP_NAME, enable ): sets the
\* state of the privilege in the token of the process
enablePrivilege(current, enable) == enable

(* ------------------------------ state ---------------------------------- *)

VARIABLES
    owner,           \* owner SID in the security descriptor of the existing file
    dacl,            \* DACL in the security descriptor of the existing file
    privilege,       \* SeTakeOwnershipPrivilege enabled in the process token
    pc,              \* per thread: position in the function it executes
    fn,              \* per thread: the function called
    filePath,        \* per thread: argument filePath
    ownerGroup,      \* per thread: argument ownerGroup
    permissions,     \* per thread: argument permissions
    ownerSID,        \* per thread: local ownerSID
    ownerGroupSID,   \* per thread: local ownerGroupSID
    adminSID,        \* per thread: local adminSID
    buffers,         \* per thread: state of each platform buffer the call acquired
    ea,              \* per thread: local ea
    acl,             \* per thread: local acl
    secInfoResult,   \* per thread: local secInfoResult
    lookupSidResult, \* per thread: local lookupSidResult
    result,          \* per thread: local result
    ret,             \* per thread: value returned by the call
    log,             \* per thread: calls and diagnostics of the current call, in order
    privAtSet,       \* per thread: state of the privilege when the owner was set
    revokedSince,    \* per thread: another thread disabled the privilege after this call enabled it
    prevCall         \* per thread: the call the thread completed before the current one

shared == << owner, dacl, privilege >>
args == << fn, filePath, ownerGroup, permissions >>
locals == << ownerSID, ownerGroupSID, adminSID, buffers, ea, acl, secInfoResult,
             lookupSidResult, result >>
observed == << privAtSet, revokedSince, prevCall >>
vars == << shared, pc, args, locals, ret, log, observed >>

NoBuffers == [securityDescriptor |-> "none", adminSID |-> "none", acl |-> "none"]
NoCall == [fn |-> "none", filePath |-> "", ownerGroup |-> "", ret |-> "none"]

\* a buffer handed out by the platform
Acquire(b, which) == [b EXCEPT ![which] = "allocated"]

\* LocalFree / FreeSid on a buffer
Release(b, which) ==
    [b EXCEPT ![which] = IF b[which] = "allocated" THEN "released" ELSE "released twice"]

Init ==
    /\ owner \in Sids
    /\ dacl \in InitialDacls
    /\ privilege = FALSE
    /\ pc = [t \in Threads |-> "idle"]
    /\ fn = [t \in Threads |-> "none"]
    /\ filePath = [t \in Threads |-> ""]
    /\ ownerGroup = [t \in Threads |-> ""]
    /\ permissions = [t \in Threads |-> 0]
    /\ ownerSID = [t \in Threads |-> NullSid]
    /\ ownerGroupSID = [t \in Threads |-> NullSid]
    /\ adminSID = [t \in Threads |-> NullSid]
    /\ buffers = [t \in Threads |-> NoBuffers]
    /\ ea = [t \in Threads |-> << >>]
    /\ acl = [t \in Threads |-> << >>]
    /\ secInfoResult = [t \in Threads |-> -1]
    /\ lookupSidResult = [t \in Threads |-> -1]
    /\ result = [t \in Threads |-> -1]
    /\ ret = [t \in Threads |-> "none"]
    /\ log = [t \in Threads |-> << >>]
    /\ privAtSet = [t \in Threads |-> FALSE]
    /\ revokedSince = [t \in Threads |-> FALSE]
    /\ prevCall = [t \in Threads |-> NoCall]

\* entry into a function: fresh locals, nothing returned or logged yet
Enter(t, f, path, group, perm, first) ==
    /\ pc[t] \in {"idle", "done"}
    /\ prevCall' = [prevCall EXCEPT ![t] =
                      IF pc[t] = "done"
                      THEN [fn |-> fn[t], filePath |-> filePath[t],
                            ownerGroup |-> ownerGroup[t], ret |-> ret[t]]
                      ELSE NoCall]
    /\ pc' = [pc EXCEPT ![t] = first]
    /\ fn' = [fn EXCEPT ![t] = f]
    /\ filePath' = [filePath EXCEPT ![t] = path]
    /\ ownerGroup' = [ownerGroup EXCEPT ![t] = group]
    /\ permissions' = [permissions EXCEPT ![t] = perm]
    /\ ownerSID' = [ownerSID EXCEPT ![t] = NullSid]
    /\ ownerGroupSID' = [ownerGroupSID EXCEPT ![t] = NullSid]
    /\ adminSID' = [adminSID EXCEPT ![t] = NullSid]
    /\ buffers' = [buffers EXCEPT ![t] = NoBuffers]
    /\ ea' = [ea EXCEPT ![t] = << >>]
    /\ acl' = [acl EXCEPT ![t] = << >>]
    /\ secInfoResult' = [secInfoResult EXCEPT ![t] = -1]
    /\ lookupSidResult' = [lookupSidResult EXCEPT ![t] = -1]
    /\ result' = [result EXCEPT ![t] = -1]
    /\ ret' = [ret EXCEPT ![t] = "none"]
    /\ log' = [log EXCEPT ![t] = << >>]
    /\ privAtSet' = [privAtSet EXCEPT ![t] = FALSE]
    /\ revokedSince' = [revokedSince EXCEPT ![t] = FALSE]
    /\ UNCHANGED shared

\* the function returns value
Return(t, value) ==
    /\ pc' = [pc EXCEPT ![t] = "done"]
    /\ ret' = [ret EXCEPT ![t] = value]

Goto(t, label) ==
    /\ pc' = [pc EXCEPT ![t] = label]
    /\ UNCHANGED ret

Log(t, events) == log' = [log EXCEPT ![t] = log[t] \o events]

(* --------------------------- fileOwnerGroup ---------------------------- *)

CallFileOwnerGroup(t) ==
    \E path \in FilePaths :
        Enter(t, "fileOwnerGroup", path, "", 0, "fog_GetNamedSecurityInfo")

\* GetNamedSecurityInfo and the test of secInfoResult
FOG_GetNamedSecurityInfo(t) ==
    /\ pc[t] = "fog_GetNamedSecurityInfo"
    /\ \E r \in GetNamedSecurityInfoResults(filePath[t]) :
        /\ secInfoResult' = [secInfoResult EXCEPT ![t] = r]
        /\ IF r # ERROR_SUCCESS
           THEN /\ Log(t, << "qCritical" >>)
                /\ Return(t, "")
                /\ UNCHANGED << ownerSID, buffers >>
           ELSE /\ ownerSID' = [ownerSID EXCEPT ![t] = owner]
                /\ buffers' = [buffers EXCEPT ![t] = Acquire(buffers[t], "securityDescriptor")]
                /\ Goto(t, "fog_LookupAccountSid")
                /\ UNCHANGED log
    /\ UNCHANGED << shared, args, ownerGroupSID, adminSID, ea, acl, lookupSidResult,
                    result, observed >>

\* LookupAccountSid with nameSize = 0 and domainLen = 0, the test of
\* lookupSidResult, and the conversion of the array name
FOG_LookupAccountSid(t) ==
    /\ pc[t] = "fog_LookupAccountSid"
    /\ LET lookup == LookupAccountSid(ownerSID[t], 0, 0)
       IN  /\ lookupSidResult' = [lookupSidResult EXCEPT ![t] = lookup.ret]
           /\ IF lookup.ret # ERROR_SUCCESS
              THEN /\ Log(t, << "qCritical" >>)
                   /\ Return(t, "")
              ELSE /\ \E content \in (IF lookup.filled THEN {lookup.name} ELSE StackContents) :
                        Return(t, content)
                   /\ UNCHANGED log
    /\ UNCHANGED << shared, args, ownerSID, ownerGroupSID, adminSID, buffers, ea, acl,
                    secInfoResult, result, observed >>

(* -------------------------- setFileOwnerGroup -------------------------- *)

CallSetFileOwnerGroup(t, paths, names) ==
    \E path \in paths, group \in names :
        Enter(t, "setFileOwnerGroup", path, group, 0, "sfog_LookupAccountName")

\* variant: the result of LookupAccountName is not tested
SFOG_LookupAccountName_Unchecked(t) ==
    /\ pc[t] = "sfog_LookupAccountName"
    /\ LET lookup == LookupAccountName(ownerGroup[t], SECURITY_MAX_SID_SIZE, MAX_PATH)
       IN  /\ ownerGroupSID' = [ownerGroupSID EXCEPT ![t] = lookup.sid]
           /\ Goto(t, "sfog_EnablePrivilege")
           /\ UNCHANGED log
    /\ UNCHANGED << shared, args, ownerSID, adminSID, buffers, ea, acl, secInfoResult,
                    lookupSidResult, result, observed >>

\* LookupAccountName into ownerGroupSID[SECURITY_MAX_SID_SIZE] and domainName[MAX_PATH]
SFOG_LookupAccountName(t) ==
    /\ pc[t] = "sfog_LookupAccountName"
    /\ LET lookup == LookupAccountName(ownerGroup[t], SECURITY_MAX_SID_SIZE, MAX_PATH)
       IN  IF lookup.ret = WIN_FALSE
           THEN /\ Log(t, << "qCritical" >>)
                /\ Return(t, FALSE)
                /\ UNCHANGED ownerGroupSID
           ELSE /\ ownerGroupSID' = [ownerGroupSID EXCEPT ![t] = lookup.sid]
                /\ Goto(t, "sfog_EnablePrivilege")
                /\ UNCHANGED log
    /\ UNCHANGED << shared, args, ownerSID, adminSID, buffers, ea, acl, secInfoResult,
                    lookupSidResult, result, observed >>

\* variant: the privilege is switched with the flag inverted
SFOG_EnablePrivilege_Inverted(t) ==
    /\ pc[t] = "sfog_EnablePrivilege"
    /\ privilege' = enablePrivilege(privilege, FALSE)
    /\ Log(t, << "enablePrivilege(true)" >>)
    /\ revokedSince' = [revokedSince EXCEPT ![t] = FALSE]
    /\ Goto(t, "sfog_SetNamedSecurityInfo")
    /\ UNCHANGED << owner, dacl, args, locals, privAtSet, prevCall >>

\* WindowsCoreFunctions::enablePrivilege( SE_TAKE_OWNERSHIP_NAME, true )
SFOG_EnablePrivilege(t) ==
    /\ pc[t] = "sfog_EnablePrivilege"
    /\ privilege' = enablePrivilege(privilege, TRUE)
    /\ Log(t, << "enablePrivilege(true)" >>)
    /\ revokedSince' = [revokedSince EXCEPT ![t] = FALSE]
    /\ Goto(t, "sfog_SetNamedSecurityInfo")
    /\ UNCHANGED << owner, dacl, args, locals, privAtSet, prevCall >>

\* variant: a failed SetNamedSecurityInfo returns at once, before the privilege is disabled
SFOG_SetNamedSecurityInfo_EarlyReturn(t) ==
    /\ pc[t] = "sfog_SetNamedSecurityInfo"
    /\ \E r \in SetOwnerResults(filePath[t], privilege) :
        /\ result' = [result EXCEPT ![t] = r]
        /\ owner' = IF r = ERROR_SUCCESS THEN ownerGroupSID[t] ELSE owner
        /\ IF r # ERROR_SUCCESS
           THEN /\ Log(t, << "SetNamedSecurityInfo(OWNER)", "qCritical" >>)
                /\ Return(t, FALSE)
           ELSE /\ Log(t, << "SetNamedSecurityInfo(OWNER)" >>)
                /\ Goto(t, "sfog_DisablePrivilege")
    /\ privAtSet' = [privAtSet EXCEPT ![t] = privilege]
    /\ UNCHANGED << dacl, privilege, args, ownerSID, ownerGroupSID, adminSID, buffers, ea,
                    acl, secInfoResult, lookupSidResult, revokedSince, prevCall >>

\* SetNamedSecurityInfo( .., OWNER_SECURITY_INFORMATION, ownerGroupSID, .. )
SFOG_SetNamedSecurityInfo(t) ==
    /\ pc[t] = "sfog_SetNamedSecurityInfo"
    /\ \E r \in SetOwnerResults(filePath[t], privilege) :
        /\ result' = [result EXCEPT ![t] = r]
        /\ owner' = IF r = ERROR_SUCCESS THEN ownerGroupSID[t] ELSE owner
    /\ privAtSet' = [privAtSet EXCEPT ![t] = privilege]
    /\ Log(t, << "SetNamedSecurityInfo(OWNER)" >>)
    /\ Goto(t, "sfog_DisablePrivilege")
    /\ UNCHANGED << dacl, privilege, args, ownerSID, ownerGroupSID, adminSID, buffers, ea,
                    acl, secInfoResult, lookupSidResult, revokedSince, prevCall >>

\* WindowsCoreFunctions::enablePrivilege( SE_TAKE_OWNERSHIP_NAME, false )
SFOG_DisablePrivilege(t) ==
    /\ pc[t] = "sfog_DisablePrivilege"
    /\ privilege' = enablePrivilege(privilege, FALSE)
    /\ Log(t, << "enablePrivilege(false)" >>)
    /\ revokedSince' = [u \in Threads |->
                          IF u # t /\ pc[u] = "sfog_SetNamedSecurityInfo"
                          THEN TRUE ELSE revokedSince[u]]
    /\ Goto(t, "sfog_Return")
    /\ UNCHANGED << owner, dacl, args, locals, privAtSet, prevCall >>

\* the test of result, its diagnostic, and the return
SFOG_Return(t) ==
    /\ pc[t] = "sfog_Return"
    /\ IF result[t] # ERROR_SUCCESS
       THEN Log(t, << "qCritical" >>)
       ELSE UNCHANGED log
    /\ Return(t, result[t] = ERROR_SUCCESS)
    /\ UNCHANGED << shared, args, locals, observed >>

(* -------------------- setFileOwnerGroupPermissions --------------------- *)

CallSetFileOwnerGroupPermissions(t) ==
    \E path \in FilePaths, perm \in PermissionValues :
        Enter(t, "setFileOwnerGroupPermissions", path, "", perm, "sfogp_GetNamedSecurityInfo")

\* GetNamedSecurityInfo and the test of secInfoResult
SFOGP_GetNamedSecurityInfo(t) ==
    /\ pc[t] = "sfogp_GetNamedSecurityInfo"
    /\ \E r \in GetNamedSecurityInfoResults(filePath[t]) :
        /\ secInfoResult' = [secInfoResult EXCEPT ![t] = r]
        /\ IF r # ERROR_SUCCESS
           THEN /\ Log(t, << "qCritical" >>)
                /\ Return(t, FALSE)
                /\ UNCHANGED << ownerSID, buffers >>
           ELSE /\ ownerSID' = [ownerSID EXCEPT ![t] = owner]
                /\ buffers' = [buffers EXCEPT ![t] = Acquire(buffers[t], "securityDescriptor")]
                /\ Goto(t, "sfogp_AllocateAndInitializeSid")
                /\ UNCHANGED log
    /\ UNCHANGED << shared, args, ownerGroupSID, adminSID, ea, acl, lookupSidResult,
                    result, observed >>

\* AllocateAndInitializeSid for BUILTIN\Administrators; it fails when memory is short
SFOGP_AllocateAndInitializeSid(t) ==
    /\ pc[t] = "sfogp_AllocateAndInitializeSid"
    /\ \E ok \in BOOLEAN :
        IF ~ok
        THEN /\ Return(t, FALSE)
             /\ UNCHANGED << adminSID, buffers >>
        ELSE /\ adminSID' = [adminSID EXCEPT ![t] = AdministratorsSid]
             /\ buffers' = [buffers EXCEPT ![t] = Acquire(buffers[t], "adminSID")]
             /\ Goto(t, "sfogp_SetEntriesInAcl")
    /\ UNCHANGED << shared, args, ownerSID, ownerGroupSID, ea, acl, secInfoResult,
                    lookupSidResult, result, log, observed >>

\* the two EXPLICIT_ACCESS entries are filled in and handed to SetEntriesInAcl,
\* which fails when memory is short or an entry is rejected
SFOGP_SetEntriesInAcl(t) ==
    /\ pc[t] = "sfogp_SetEntriesInAcl"
    /\ LET entries == BuildExplicitAccess(permissions[t], ownerSID[t], adminSID[t])
       IN  /\ ea' = [ea EXCEPT ![t] = entries]
           /\ \E ok \in BOOLEAN :
               IF ~ok
               THEN /\ Log(t, << "qCritical" >>)
                    /\ buffers' = [buffers EXCEPT ![t] = Release(buffers[t], "adminSID")]
                    /\ Return(t, FALSE)
                    /\ UNCHANGED acl
               ELSE /\ acl' = [acl EXCEPT ![t] =
                                 SetEntriesInAcl(NUM_ACES, entries, OldAclArgument(dacl))]
                    /\ buffers' = [buffers EXCEPT ![t] = Acquire(buffers[t], "acl")]
                    /\ Goto(t, "sfogp_SetNamedSecurityInfo")
                    /\ UNCHANGED log
    /\ UNCHANGED << shared, args, ownerSID, ownerGroupSID, adminSID, secInfoResult,
                    lookupSidResult, result, observed >>

\* SetNamedSecurityInfo( .., DACL_SECURITY_INFORMATION, .., acl, .. )
SFOGP_SetNamedSecurityInfo(t) ==
    /\ pc[t] = "sfogp_SetNamedSecurityInfo"
    /\ \E r \in SetDaclResults(filePath[t]) :
        /\ result' = [result EXCEPT ![t] = r]
        /\ dacl' = IF r = ERROR_SUCCESS THEN acl[t] ELSE dacl
    /\ Log(t, << "SetNamedSecurityInfo(DACL)" >>)
    /\ Goto(t, "sfogp_Return")
    /\ UNCHANGED << owner, privilege, args, ownerSID, ownerGroupSID, adminSID, buffers, ea,
                    acl, secInfoResult, lookupSidResult, observed >>

\* variant: everything but a denial counts as success
PermissionsReturnValue_NotDenied(r) == r # ERROR_ACCESS_DENIED

\* the value returned after the DACL was handed to the backend
PermissionsReturnValue(r) == r = ERROR_SUCCESS

\* the test of result, its diagnostic, FreeSid, LocalFree and the return
SFOGP_Return(t) ==
    /\ pc[t] = "sfogp_Return"
    /\ IF result[t] # ERROR_ACCESS_DENIED
       THEN Log(t, << "qCritical" >>)
       ELSE UNCHANGED log
    /\ buffers' = [buffers EXCEPT ![t] = Release(Release(buffers[t], "adminSID"), "acl")]
    /\ Return(t, PermissionsReturnValue(result[t]))
    /\ UNCHANGED << shared, args, ownerSID, ownerGroupSID, adminSID, ea, acl, secInfoResult,
                    lookupSidResult, result, observed >>

(* --------------------------- specifications ---------------------------- *)

\* calls are made one after the other, from one thread
Next ==
    \E t \in MainThread :
        \/ CallFileOwnerGroup(t)
        \/ FOG_GetNamedSecurityInfo(t)
        \/ FOG_LookupAccountSid(t)
        \/ CallSetFileOwnerGroup(t, FilePaths, GroupNames)
        \/ SFOG_LookupAccountName(t)
        \/ SFOG_EnablePrivilege(t)
        \/ SFOG_SetNamedSecurityInfo(t)
        \/ SFOG_DisablePrivilege(t)
        \/ SFOG_Return(t)
        \/ CallSetFileOwnerGroupPermissions(t)
        \/ SFOGP_GetNamedSecurityInfo(t)
        \/ SFOGP_AllocateAndInitializeSid(t)
        \/ SFOGP_SetEntriesInAcl(t)
        \/ SFOGP_SetNamedSecurityInfo(t)
        \/ SFOGP_Return(t)

Spec == Init /\ [][Next]_vars

\* setFileOwnerGroup is called from several threads of the process at once
ConcNext ==
    \E t \in Threads :
        \/ CallSetFileOwnerGroup(t, ConcPaths, ConcNames)
        \/ SFOG_LookupAccountName(t)
        \/ SFOG_EnablePrivilege(t)
        \/ SFOG_SetNamedSecurityInfo(t)
        \/ SFOG_DisablePrivilege(t)
        \/ SFOG_Return(t)

ConcSpec == Init /\ [][ConcNext]_vars

(* ------------------------------ claims --------------------------------- *)

Done(t, f) == pc[t] = "done" /\ fn[t] = f

InLog(t, event) == \E i \in DOMAIN log[t] : log[t][i] = event

\* the owner-replacing backend call of the current setFileOwnerGroup call was issued
OwnerCallIssued(t) == fn[t] = "setFileOwnerGroup" /\ InLog(t, "SetNamedSecurityInfo(OWNER)")

\* the DACL-replacing backend call of the current setFileOwnerGroupPermissions call was issued
DaclCallIssued(t) ==
    fn[t] = "setFileOwnerGroupPermissions" /\ InLog(t, "SetNamedSecurityInfo(DACL)")

\* the group name of the call resolves to a principal
Resolves(group) == \E a \in Accounts : group \in a.aliases

\* the name the resolver reports for the principal a group name resolves to
CanonicalName(group) == (CHOOSE a \in Accounts : group \in a.aliases).name

\* flag f (a power of two) is present in the permission set perm
HasFlag(perm, f) == (perm \div f) % 2 = 1

\* C1: a setFileOwnerGroup call that resolved the group name has, when it
\* returns, enabled the privilege once, then set the owner, then disabled the
\* privilege once, whether setting the owner succeeded or failed, and the
\* privilege is disabled.
C1_PrivilegeScopePaired ==
    \A t \in Threads :
        Done(t, "setFileOwnerGroup") /\ Resolves(ownerGroup[t]) =>
            /\ SelectSeq(log[t], LAMBDA e : e # "qCritical")
                 = << "enablePrivilege(true)", "SetNamedSecurityInfo(OWNER)",
                      "enablePrivilege(false)" >>
            /\ privilege = FALSE

\* C1 witness: a resolved call returned after the backend refused the new owner
C1_Witness ==
    \E t \in Threads :
        /\ Done(t, "setFileOwnerGroup")
        /\ Resolves(ownerGroup[t])
        /\ result[t] = ERROR_INVALID_OWNER
        /\ ret[t] = FALSE

\* C2: the step of a setFileOwnerGroup call whose group name does not resolve
\* returns false at once: the privilege is not enabled, no owner-replacing
\* call is made, and owner, DACL and privilege are what they were.
C2_UnresolvedGroupNoMutation ==
    [][ \A t \in Threads :
          ( /\ pc[t] = "sfog_LookupAccountName"
            /\ ~Resolves(ownerGroup[t])
            /\ pc'[t] # pc[t] )
          => ( /\ pc'[t] = "done"
               /\ ret'[t] = FALSE
               /\ \A i \in DOMAIN log'[t] :
                    log'[t][i] \notin {"enablePrivilege(true)", "SetNamedSecurityInfo(OWNER)"}
               /\ owner' = owner
               /\ dacl' = dacl
               /\ privilege' = privilege ) ]_vars

\* C2 witness: a call with an unknown group name returned false
C2_Witness ==
    \E t \in Threads :
        /\ Done(t, "setFileOwnerGroup")
        /\ ownerGroup[t] = "NoSuchUser"
        /\ ret[t] = FALSE

\* C3: once setFileOwnerGroupPermissions has handed its ACL to the backend,
\* the entry list has exactly two SET_ACCESS entries, the first for the file's
\* current owner and the second GENERIC_ALL for Administrators, the ACL holds
\* exactly these two allowed ACEs in this order, and on success it is the
\* file's whole DACL.
C3_TwoEntriesOwnerThenAdmins ==
    \A t \in Threads :
        DaclCallIssued(t) =>
            /\ Len(ea[t]) = 2
            /\ ea[t][1].ptstrName = owner
            /\ ea[t][1].grfAccessMode = "SET_ACCESS"
            /\ ea[t][2].ptstrName = AdministratorsSid
            /\ ea[t][2].grfAccessMode = "SET_ACCESS"
            /\ ea[t][2].grfAccessPermissions = GENERIC_ALL
            /\ acl[t] = << Ace(owner, ea[t][1].grfAccessPermissions),
                           Ace(AdministratorsSid, GENERIC_ALL) >>
            /\ (result[t] = ERROR_SUCCESS => dacl = acl[t])

\* C3 witness: the empty permission set was applied with success to a file
\* owned by Administrators
C3_Witness ==
    \E t \in Threads :
        /\ Done(t, "setFileOwnerGroupPermissions")
        /\ DaclCallIssued(t)
        /\ result[t] = ERROR_SUCCESS
        /\ permissions[t] = 0
        /\ owner = AdministratorsSid

\* C4: the mask of the owner entry holds GENERIC_READ, GENERIC_WRITE and
\* GENERIC_EXECUTE exactly for the group flags present in the permission set,
\* and no other bit; without group flags it is zero.
C4_MaskIsUnionOfFlags ==
    \A t \in Threads :
        fn[t] = "setFileOwnerGroupPermissions" /\ ea[t] # << >> =>
            ea[t][1].grfAccessPermissions =
                { b \in 0..31 : \/ b = 31 /\ HasFlag(permissions[t], ReadGroup)
                                \/ b = 30 /\ HasFlag(permissions[t], WriteGroup)
                                \/ b = 29 /\ HasFlag(permissions[t], ExeGroup) }

\* C4 witness: a permission set without group flags gave a zero mask
C4_Witness ==
    \E t \in Threads :
        /\ fn[t] = "setFileOwnerGroupPermissions"
        /\ ea[t] # << >>
        /\ permissions[t] = 16384 + 4
        /\ ea[t][1].grfAccessPermissions = {}

\* C5: fileOwnerGroup, called right after a setFileOwnerGroup call on the
\* same path that returned true, and itself able to read the owner, returns
\* the resolver's name of the group just set.
C5_RoundTrip ==
    \A t \in Threads :
        ( /\ Done(t, "fileOwnerGroup")
          /\ secInfoResult[t] = ERROR_SUCCESS
          /\ prevCall[t].fn = "setFileOwnerGroup"
          /\ prevCall[t].filePath = filePath[t]
          /\ prevCall[t].ret = TRUE )
        => ret[t] = CanonicalName(prevCall[t].ownerGroup)

\* C6: when fileOwnerGroup or setFileOwnerGroupPermissions has returned, every
\* buffer the call acquired has been released, and none was released twice.
C6_BuffersReleasedOnce ==
    \A t \in Threads :
        pc[t] = "done" /\ fn[t] \in {"fileOwnerGroup", "setFileOwnerGroupPermissions"} =>
            \A b \in DOMAIN buffers[t] : buffers[t][b] \in {"none", "released"}

\* C7: fileOwnerGroup returns a non-empty name only when the owner retrieval
\* succeeded and LookupAccountSid succeeded.
C7_NameOnlyAfterSuccessfulLookup ==
    \A t \in Threads :
        Done(t, "fileOwnerGroup") /\ ret[t] # "" =>
            secInfoResult[t] = ERROR_SUCCESS /\ lookupSidResult[t] = WIN_TRUE

\* C8: setFileOwnerGroupPermissions returns true exactly when the DACL was
\* handed to the backend and the backend reported success; when the owner
\* retrieval, the Administrators SID or the ACL construction failed it returns
\* false without handing a DACL to the backend.
C8_TrueIffDaclApplied ==
    \A t \in Threads :
        Done(t, "setFileOwnerGroupPermissions") =>
            /\ ret[t] = TRUE <=> (DaclCallIssued(t) /\ result[t] = ERROR_SUCCESS)
            /\ ( \/ secInfoResult[t] # ERROR_SUCCESS
                 \/ adminSID[t] = NullSid
                 \/ acl[t] = << >> )
               => (ret[t] = FALSE /\ ~DaclCallIssued(t))

\* C8 witness: the backend denied the DACL replacement and the call returned false
C8_Witness ==
    \E t \in Threads :
        /\ Done(t, "setFileOwnerGroupPermissions")
        /\ DaclCallIssued(t)
        /\ result[t] = ERROR_ACCESS_DENIED
        /\ ret[t] = FALSE

\* C9: after the DACL was handed to the backend, a critical diagnostic is
\* emitted exactly when the result is a failure other than access denied.
C9_DiagnosticOnlyOnUnexpectedFailure ==
    \A t \in Threads :
        pc[t] = "done" /\ DaclCallIssued(t) =>
            (InLog(t, "qCritical") <=> result[t] \notin {ERROR_SUCCESS, ERROR_ACCESS_DENIED})

\* C10 as stated: every owner-replacing backend call is issued while the
\* take-ownership privilege is enabled, whatever the interleaving of the calls.
C10_OwnerSetUnderPrivilege ==
    \A t \in Threads : OwnerCallIssued(t) => privAtSet[t]

\* C10 amended: an owner-replacing backend call is issued while the privilege
\* is enabled unless another thread's call disabled the privilege after this
\* call enabled it.
C10_OwnerSetUnderPrivilegeUnlessRevoked ==
    \A t \in Threads : OwnerCallIssued(t) /\ ~revokedSince[t] => privAtSet[t]

\* C10 witness: the owner was set under the privilege while another thread's
\* call was between its own enable and disable steps
C10_Witness ==
    \E t \in Threads, u \in Threads :
        /\ u # t
        /\ OwnerCallIssued(t)
        /\ ~revokedSince[t]
        /\ privAtSet[t]
        /\ pc[t] = "sfog_DisablePrivilege"
        /\ pc[u] \in {"sfog_SetNamedSecurityInfo", "sfog_DisablePrivilege"}

====
